---------------------------- MODULE Spec2Model ----------------------------
(***************************************************************************)
(* kube-chaos-lab, tools/labctl: the convergence engine.                   *)
(*                                                                         *)
(*   Spec        StartService.execute (start.py): the six stages, one      *)
(*               action per external interaction.                          *)
(*   WaiterSpec  Waiter.wait (wait.py): the generic poll loop.             *)
(*   CliSpec     Spec, with the start command of cli.py around execute     *)
(*               and a re-invocation on an unchanged external system.      *)
(*                                                                         *)
(* The external system (kind, kubectl, the file system, the HTTP entry     *)
(* point) is the variable ext: what it answers to the queries of the       *)
(* current stage during the current poll iteration.  The first query of    *)
(* an iteration draws it; a sleep and the return of a stage forget it.     *)
(***************************************************************************)
EXTENDS Integers, Sequences, FiniteSets, TLC

VARIABLES
    pc,             \* position of execute
    stage,          \* the [n/6] line last printed by execute
    ext,            \* answers of the external system in this iteration
    topo,           \* the kind topology file (infra/kind/cluster.yaml)
    expected,       \* local `expected` of _wait_for_nodes_ready (-1: unset)
    issued,         \* external commands issued in this iteration, in order
    err,            \* the exception that left execute ("none": none)
    ready,          \* "Cluster and platform are ready." was printed
    attempt,        \* number of the poll iteration of the stage: the local
                    \* `attempt` of the smoke test; the other loops keep no
                    \* counter, for them it is the history of the wait
    wpc,            \* position of Waiter.wait
    has_fail_fast,  \* argument fail_fast is not None
    ff,             \* what fail_fast() returns in this iteration
    chk,            \* what check() returns in this iteration
    ff_calls,       \* calls of fail_fast in this iteration
    check_calls,    \* calls of check in this iteration
    wout,           \* last line printed by wait
    iter,           \* iterations of the loop begun so far
    frozen,         \* re-invocation: the state the external system is still in
    exit_code,      \* exit status of the start command (-1: still running)
    shown           \* what the start command printed about a failure

svars == <<pc, stage, ext, topo, expected, issued, err, ready, attempt>>
wvars == <<wpc, has_fail_fast, ff, chk, ff_calls, check_calls, wout, iter>>
cvars == <<frozen, exit_code, shown>>
vars  == <<pc, stage, ext, topo, expected, issued, err, ready, attempt,
           wpc, has_fail_fast, ff, chk, ff_calls, check_calls, wout, iter,
           frozen, exit_code, shown>>

---------------------------------------------------------------------------
(* Bounds of the model.                                                    *)

MaxNodes == 2
MaxClusters == 2
MaxReplicas == 3
MaxPods == 2
MaxIter == 3

SeqsUpTo(S, n) == UNION {[1..k -> S] : k \in 0..n}

---------------------------------------------------------------------------
(* Values exchanged with the external system.                              *)

cluster_name == "kube-chaos-lab"

ClusterNames == {cluster_name, "other"}

\* `kind get clusters`: exit code and the lines of stdout.  A failing kind
\* prints nothing on stdout.
ListResponses ==
    {[rc |-> 0, out |-> o] : o \in SeqsUpTo(ClusterNames, MaxClusters)}
        \cup {[rc |-> 1, out |-> <<>>]}

CondReadyTrue  == [type |-> "Ready", status |-> "True"]
CondReadyFalse == [type |-> "Ready", status |-> "False"]
CondOtherTrue  == [type |-> "MemoryPressure", status |-> "True"]

\* status.conditions of a node or of a pod
ConditionLists ==
    {<<>>, <<CondReadyTrue>>, <<CondReadyFalse>>, <<CondOtherTrue, CondReadyTrue>>}

NodeObjects == [conditions : ConditionLists]

\* `kubectl get nodes -o json`: exit code, whether stdout parses, the items.
NodesResponses ==
    {[rc |-> 0, json |-> TRUE, items |-> i] : i \in SeqsUpTo(NodeObjects, MaxNodes)}
        \cup {[rc |-> 0, json |-> FALSE, items |-> <<>>],
              [rc |-> 1, json |-> FALSE, items |-> <<>>]}

\* The topology file: absent, a document without "nodes", or n nodes.
TopologyFiles ==
    {[kind |-> "missing", n |-> 0], [kind |-> "no_nodes_key", n |-> 0]}
        \cup {[kind |-> "nodes", n |-> k] : k \in 0..MaxNodes}

\* status of a deployment; the controller keeps available <= ready <= replicas
DeploymentStatuses ==
    {s \in [replicas : 0..MaxReplicas, readyReplicas : 0..MaxReplicas,
            availableReplicas : 0..MaxReplicas] :
        s.availableReplicas <= s.readyReplicas /\ s.readyReplicas <= s.replicas}

NoStatus == [replicas |-> 0, readyReplicas |-> 0, availableReplicas |-> 0]

\* `kubectl get deployment -o json`
DeploymentResponses ==
    {[rc |-> 0, json |-> TRUE, status |-> s] : s \in DeploymentStatuses}
        \cup {[rc |-> 0, json |-> FALSE, status |-> NoStatus],
              [rc |-> 1, json |-> FALSE, status |-> NoStatus]}

\* state.waiting.reason of a container; "" is a container that is not waiting
TerminalReasons == {"ImagePullBackOff", "ErrImagePull", "CrashLoopBackOff"}
WaitingReasons == {"", "ContainerCreating"} \cup TerminalReasons

ContainerStatusLists ==
    {<<>>} \cup {<<r>> : r \in WaitingReasons}
           \cup {<<"ContainerCreating", r>> : r \in TerminalReasons}

\* pods of the CoreDNS selector: the detector reads their containers only
DnsPodObjects == [containerStatuses : ContainerStatusLists]

\* pods of the ingress selector.  The kubelet writes a pod's conditions and
\* container statuses together: a pod whose Ready condition is True has no
\* waiting container.
PodConditionLists == {<<>>, <<CondReadyTrue>>, <<CondReadyFalse>>}
PodObjects ==
    {p \in [conditions : PodConditionLists, containerStatuses : ContainerStatusLists] :
        (\E i \in DOMAIN p.conditions : p.conditions[i] = CondReadyTrue) =>
            \A j \in DOMAIN p.containerStatuses : p.containerStatuses[j] = ""}

\* `kubectl get pods -l ... -o json`
PodsResponses(P) ==
    {[rc |-> 0, json |-> TRUE, items |-> i] : i \in SeqsUpTo(P, MaxPods)}
        \cup {[rc |-> 0, json |-> FALSE, items |-> <<>>],
              [rc |-> 1, json |-> FALSE, items |-> <<>>]}

\* one GET on the entry point: a response status, or the exception raised
HttpOutcomes == {"200", "204", "HTTPError 503", "URLError", "TimeoutError", "Exception"}

\* what the external system answers, stage by stage
ReconcileExt ==
    [clusters : ListResponses, info_rc : {0, 1}, nodes : NodesResponses,
     delete_rc : {0, 1}, create_rc : {0, 1}]
NodesExt   == [nodes : NodesResponses]
ApplyExt   == [base_exists : BOOLEAN, apply_rc : {0, 1}]
CoreDnsExt == [dep : DeploymentResponses, pods : PodsResponses(DnsPodObjects)]
IngressExt == [pods : PodsResponses(PodObjects)]
SmokeExt   == [http : HttpOutcomes]

---------------------------------------------------------------------------
(* kube.py                                                                 *)

\* run_command in the place of run_or_raise: the exit code is not looked at
run_command_ok(rc) == TRUE

\* run_or_raise raises CommandError exactly when the exit code is not 0
run_or_raise_ok(rc) == rc = 0

\* run_or_raise followed by json.loads, both inside one try block
json_query_ok(resp) == run_or_raise_ok(resp.rc) /\ resp.json

---------------------------------------------------------------------------
(* start.py: the pure parts                                                *)

\* `if clusters:` in the place of the membership test
any_cluster_listed(out) == out # <<>>

\* self.config.cluster_name in clusters
target_listed(out) == \E i \in 1..Len(out) : out[i] = cluster_name

\* open() of the topology file succeeds
topology_readable(t) == t.kind # "missing"

\* len(data.get("nodes", []))
expected_node_count(t) == IF t.kind = "nodes" THEN t.n ELSE 0

\* conditions[0] alone in the place of any(...)
node_is_ready_first_condition(obj) ==
    /\ obj.conditions # <<>>
    /\ obj.conditions[1].type = "Ready" /\ obj.conditions[1].status = "True"

\* any(c.type == "Ready" and c.status == "True" for c in conditions)
node_is_ready(obj) ==
    \E i \in 1..Len(obj.conditions) :
        obj.conditions[i].type = "Ready" /\ obj.conditions[i].status = "True"

\* sum(1 for n in items if self._node_is_ready(n))
ready_count(items) == Cardinality({i \in 1..Len(items) : node_is_ready(items[i])})

\* every node judged by conditions[0] alone
snapshot_first_condition(items, t) ==
    /\ Len(items) = (IF t.kind = "nodes" THEN t.n ELSE 0)
    /\ \A i \in 1..Len(items) :
         /\ items[i].conditions # <<>>
         /\ items[i].conditions[1] = [type |-> "Ready", status |-> "True"]

\* the count comparison alone, without the loop over the nodes
snapshot_count_only(items, t) == Len(items) = expected_node_count(t)

\* the tail of _cluster_is_healthy_snapshot, once both queries succeeded
snapshot_nodes_healthy(items, t) ==
    /\ Len(items) = expected_node_count(t)
    /\ \A i \in 1..Len(items) : node_is_ready(items[i])

\* len(items) == expected alone
nodes_done_count_only(items, e) == Len(items) = e

\* ready == expected alone
nodes_done_ready_only(items, e) ==
    Cardinality({i \in 1..Len(items) : \E j \in 1..Len(items[i].conditions) :
        items[i].conditions[j] = [type |-> "Ready", status |-> "True"]}) = e

\* len(items) == expected and ready == expected
nodes_done(items, e) == Len(items) = e /\ ready_count(items) = e

\* desired > 0 and available == desired
deployment_available(st) ==
    st.replicas > 0 /\ st.availableReplicas = st.replicas

\* reason in ("ImagePullBackOff", "ErrImagePull", "CrashLoopBackOff");
\* a container that is not waiting is skipped
terminal_reason(r) == r # "" /\ r \in TerminalReasons

\* some container of the pod waits for a terminal reason
pod_has_terminal_failure(pod) ==
    \E j \in 1..Len(pod.containerStatuses) : terminal_reason(pod.containerStatuses[j])

\* the loops over the pods raise at the first such pod
pods_have_terminal_failure(items) ==
    \E i \in 1..Len(items) : pod_has_terminal_failure(items[i])

\* ready_count >= 1 in the place of ready_count == total
ingress_some_pod_ready(items) == ready_count(items) >= 1

\* ready_count == total
ingress_pods_ready(items) == ready_count(items) = Len(items)

\* any 2xx status in the place of 200
smoke_done_any_2xx(http) == http \in {"200", "204"}

\* status == 200
smoke_done(http) == http = "200"

---------------------------------------------------------------------------
(* start.py: execute, step by step                                         *)

Idle == [none |-> TRUE]

WaiterIdle ==
    /\ wpc = "idle" /\ has_fail_fast = FALSE /\ ff = "" /\ chk = [done |-> FALSE, msg |-> ""]
    /\ ff_calls = 0 /\ check_calls = 0 /\ wout = "" /\ iter = 0

Init ==
    /\ pc = "ensure_cluster"
    /\ stage = 1
    /\ ext = Idle
    /\ topo \in TopologyFiles
    /\ expected = -1
    /\ issued = <<>>
    /\ err = "none"
    /\ ready = FALSE
    /\ attempt = 1
    /\ frozen = Idle
    /\ exit_code = -1
    /\ shown = "none"
    /\ WaiterIdle

\* an exception leaves execute
raise(e) ==
    /\ pc' = "failed"
    /\ err' = e
    /\ UNCHANGED <<stage, ext, topo, expected, ready, attempt>>

goto(p) ==
    /\ pc' = p
    /\ UNCHANGED <<stage, ext, topo, expected, err, ready, attempt>>

\* the first query of an iteration: the external system shows its state e
observe(e, p) ==
    /\ ext' = e
    /\ pc' = p
    /\ UNCHANGED <<stage, topo, expected, err, ready, attempt>>

observe_raise(e, x) ==
    /\ ext' = e
    /\ pc' = "failed"
    /\ err' = x
    /\ UNCHANGED <<stage, topo, expected, ready, attempt>>

run(cmd) == issued' = Append(issued, cmd)

\* the answers the external system can give to _ensure_cluster: any, or,
\* when it was left by a completed run and has not changed since, the target
\* listed, the API server answering and the nodes as last observed
ReconcileAnswers ==
    IF frozen = Idle
      THEN ReconcileExt
      ELSE {e \in ReconcileExt :
              /\ e.clusters.rc = 0
              /\ \E i \in DOMAIN e.clusters.out : e.clusters.out[i] = cluster_name
              /\ e.info_rc = 0
              /\ e.nodes = frozen.nodes}

\* _ensure_cluster listing the clusters through run_or_raise
ensure_cluster_checked ==
    /\ pc = "ensure_cluster"
    /\ run("kind get clusters")
    /\ \E e \in ReconcileAnswers :
         IF ~run_or_raise_ok(e.clusters.rc)
           THEN observe_raise(e, "CommandFailed")
           ELSE IF ~target_listed(e.clusters.out)
             THEN observe(e, "create_cluster")
             ELSE observe(e, "snapshot_cluster_info")
    /\ UNCHANGED <<wvars, cvars>>

ensure_cluster ==
    /\ pc = "ensure_cluster"
    /\ run("kind get clusters")
    /\ \E e \in ReconcileAnswers :
         IF ~target_listed(e.clusters.out)
           THEN observe(e, "create_cluster")
           ELSE observe(e, "snapshot_cluster_info")
    /\ UNCHANGED <<wvars, cvars>>

\* the snapshot going on to the node list whatever cluster-info answered
snapshot_ignores_cluster_info ==
    /\ pc = "snapshot_cluster_info"
    /\ run("kubectl cluster-info")
    /\ goto("snapshot_get_nodes")
    /\ UNCHANGED <<wvars, cvars>>

snapshot_cluster_info ==
    /\ pc = "snapshot_cluster_info"
    /\ run("kubectl cluster-info")
    /\ IF ~run_or_raise_ok(ext.info_rc)
         THEN goto("delete_cluster")
         ELSE goto("snapshot_get_nodes")
    /\ UNCHANGED <<wvars, cvars>>

snapshot_get_nodes ==
    /\ pc = "snapshot_get_nodes"
    /\ run("kubectl get nodes")
    /\ IF ~json_query_ok(ext.nodes)
         THEN goto("delete_cluster")
         ELSE IF ~topology_readable(topo)
           THEN raise("FileNotFoundError")
           ELSE IF snapshot_nodes_healthy(ext.nodes.items, topo)
             THEN goto("ensure_return")
             ELSE goto("delete_cluster")
    /\ UNCHANGED <<wvars, cvars>>

delete_cluster ==
    /\ pc = "delete_cluster"
    /\ run("kind delete cluster")
    /\ IF ~run_or_raise_ok(ext.delete_rc)
         THEN raise("StartError: Failed to delete cluster")
         ELSE goto("create_cluster")
    /\ UNCHANGED <<wvars, cvars>>

\* _create_cluster with the except clause of _delete_cluster pasted in
create_cluster_with_delete_label ==
    /\ pc = "create_cluster"
    /\ run("kind create cluster")
    /\ IF ~run_or_raise_ok(ext.create_rc)
         THEN raise("StartError: Failed to delete cluster")
         ELSE goto("ensure_return")
    /\ UNCHANGED <<wvars, cvars>>

create_cluster ==
    /\ pc = "create_cluster"
    /\ run("kind create cluster")
    /\ IF ~run_or_raise_ok(ext.create_rc)
         THEN raise("StartError: Failed to create cluster")
         ELSE goto("ensure_return")
    /\ UNCHANGED <<wvars, cvars>>

\* the previous stage returned: execute prints the next [n/6] line and calls
\* the next stage, whose locals are fresh
begin_stage(from, first) ==
    /\ pc = from
    /\ pc' = first
    /\ stage' = stage + 1
    /\ ext' = Idle
    /\ issued' = <<>>
    /\ expected' = -1
    /\ attempt' = 1
    /\ UNCHANGED <<topo, err, ready>>
    /\ UNCHANGED <<wvars, cvars>>

execute_nodes == begin_stage("ensure_return", "nodes_expected")

nodes_expected ==
    /\ pc = "nodes_expected"
    /\ IF ~topology_readable(topo)
         THEN raise("FileNotFoundError")
         ELSE /\ pc' = "nodes_poll"
              /\ expected' = expected_node_count(topo)
              /\ UNCHANGED <<stage, ext, topo, err, ready, attempt>>
    /\ UNCHANGED issued
    /\ UNCHANGED <<wvars, cvars>>

nodes_poll ==
    /\ pc = "nodes_poll"
    /\ run("kubectl get nodes")
    /\ \E e \in NodesExt :
         IF ~json_query_ok(e.nodes)
           THEN observe(e, "nodes_sleep")
           ELSE IF nodes_done(e.nodes.items, expected)
             THEN observe(e, "nodes_return")
             ELSE observe(e, "nodes_sleep")
    /\ UNCHANGED <<wvars, cvars>>

\* time.sleep(poll_seconds): the external system moves on meanwhile, and
\* the next iteration begins (`attempt += 1` in the smoke test)
sleep(at, back) ==
    /\ pc = at
    /\ attempt < MaxIter
    /\ pc' = back
    /\ attempt' = attempt + 1
    /\ ext' = Idle
    /\ issued' = <<>>
    /\ UNCHANGED <<stage, topo, expected, err, ready>>
    /\ UNCHANGED <<wvars, cvars>>

nodes_sleep == sleep("nodes_sleep", "nodes_poll")

execute_apply == begin_stage("nodes_return", "apply")

\* _apply_base_manifests without the test of base_path.exists()
apply_without_directory_check ==
    /\ pc = "apply"
    /\ \E e \in ApplyExt :
         /\ run("kubectl apply -k")
         /\ IF ~run_or_raise_ok(e.apply_rc)
              THEN observe_raise(e, "StartError: Failed to apply base manifests")
              ELSE observe(e, "apply_return")
    /\ UNCHANGED <<wvars, cvars>>

apply_base_manifests ==
    /\ pc = "apply"
    /\ \E e \in ApplyExt :
         IF ~e.base_exists
           THEN /\ observe_raise(e, "StartError: infra/base directory not found.")
                /\ UNCHANGED issued
           ELSE /\ run("kubectl apply -k")
                /\ IF ~run_or_raise_ok(e.apply_rc)
                     THEN observe_raise(e, "StartError: Failed to apply base manifests")
                     ELSE observe(e, "apply_return")
    /\ UNCHANGED <<wvars, cvars>>

execute_coredns == begin_stage("apply_return", "coredns_poll")

\* one iteration of _wait_for_deployment_available, up to the detector
wait_for_deployment_available ==
    /\ pc = "coredns_poll"
    /\ run("kubectl get deployment coredns")
    /\ \E e \in CoreDnsExt :
         IF ~json_query_ok(e.dep)
           THEN observe(e, "coredns_sleep")
           ELSE IF deployment_available(e.dep.status)
             THEN observe(e, "coredns_return")
             ELSE observe(e, "coredns_pods")
    /\ UNCHANGED <<wvars, cvars>>

\* _raise_on_terminal_pod_failures: run_command, then json.loads unguarded
raise_on_terminal_pod_failures ==
    /\ pc = "coredns_pods"
    /\ run("kubectl get pods k8s-app=kube-dns")
    /\ IF ext.pods.rc # 0
         THEN goto("coredns_sleep")
         ELSE IF ~ext.pods.json
           THEN raise("JSONDecodeError")
           ELSE IF pods_have_terminal_failure(ext.pods.items)
             THEN raise("StartError: CoreDNS pod failure")
             ELSE goto("coredns_sleep")
    /\ UNCHANGED <<wvars, cvars>>

coredns_sleep == sleep("coredns_sleep", "coredns_poll")

execute_ingress == begin_stage("coredns_return", "ingress_poll")

\* one iteration of _wait_for_platform_ingress
wait_for_platform_ingress ==
    /\ pc = "ingress_poll"
    /\ run("kubectl get pods component=controller")
    /\ \E e \in IngressExt :
         IF e.pods.rc # 0
           THEN observe(e, "ingress_sleep")
           ELSE IF ~e.pods.json
             THEN observe_raise(e, "JSONDecodeError")
             ELSE IF e.pods.items = <<>>
               THEN observe(e, "ingress_sleep")
               ELSE IF pods_have_terminal_failure(e.pods.items)
                 THEN observe_raise(e, "StartError: Ingress pod failure")
                 ELSE IF ingress_pods_ready(e.pods.items)
                   THEN observe(e, "ingress_return")
                   ELSE observe(e, "ingress_sleep")
    /\ UNCHANGED <<wvars, cvars>>

ingress_sleep == sleep("ingress_sleep", "ingress_poll")

execute_smoke == begin_stage("ingress_return", "smoke_poll")

\* the smoke test settling for any HTTP response once it has retried:
\* `if status == 200 or attempt > 1`
smoke_test_lenient_after_retry ==
    /\ pc = "smoke_poll"
    /\ run("GET http://127.0.0.1:8080/")
    /\ \E e \in SmokeExt :
         IF smoke_done(e.http) \/ (attempt > 1 /\ e.http \in {"204", "HTTPError 503"})
           THEN observe(e, "smoke_return")
           ELSE observe(e, "smoke_sleep")
    /\ UNCHANGED <<wvars, cvars>>

\* one attempt of _smoke_test_ingress_entrypoint; every exception is caught
smoke_test_ingress_entrypoint ==
    /\ pc = "smoke_poll"
    /\ run("GET http://127.0.0.1:8080/")
    /\ \E e \in SmokeExt :
         IF smoke_done(e.http)
           THEN observe(e, "smoke_return")
           ELSE observe(e, "smoke_sleep")
    /\ UNCHANGED <<wvars, cvars>>

smoke_sleep == sleep("smoke_sleep", "smoke_poll")

\* the last print of execute
execute_ready ==
    /\ pc = "smoke_return"
    /\ pc' = "done"
    /\ ready' = TRUE
    /\ UNCHANGED <<stage, ext, topo, expected, issued, err, attempt>>
    /\ UNCHANGED <<wvars, cvars>>

Next ==
    \/ ensure_cluster
    \/ snapshot_cluster_info
    \/ snapshot_get_nodes
    \/ delete_cluster
    \/ create_cluster
    \/ execute_nodes
    \/ nodes_expected
    \/ nodes_poll
    \/ nodes_sleep
    \/ execute_apply
    \/ apply_base_manifests
    \/ execute_coredns
    \/ wait_for_deployment_available
    \/ raise_on_terminal_pod_failures
    \/ coredns_sleep
    \/ execute_ingress
    \/ wait_for_platform_ingress
    \/ ingress_sleep
    \/ execute_smoke
    \/ smoke_test_ingress_entrypoint
    \/ smoke_sleep
    \/ execute_ready

Spec == Init /\ [][Next]_vars

---------------------------------------------------------------------------
(* wait.py: Waiter.wait                                                    *)

\* what a FailFastFn may return: None, an empty or a non-empty diagnostic
FailFastResults == {"<None>", "", "pod failure"}

\* what a CheckFn may return
CheckResults == [done : BOOLEAN, msg : {"", "status"}]

\* `if err:`
truthy(e) == e # "<None>" /\ e # ""

ServiceIdle ==
    /\ pc = "idle" /\ stage = 0 /\ ext = Idle /\ topo = [kind |-> "missing", n |-> 0]
    /\ expected = -1 /\ issued = <<>> /\ err = "none" /\ ready = FALSE
    /\ attempt = 1
    /\ frozen = Idle /\ exit_code = -1 /\ shown = "none"

WaiterInit ==
    /\ wpc = "fail_fast"
    /\ has_fail_fast \in BOOLEAN
    /\ ff \in FailFastResults
    /\ chk \in CheckResults
    /\ ff_calls = 0
    /\ check_calls = 0
    /\ wout = "title"
    /\ iter = 1
    /\ ServiceIdle

\* the check consulted before fail_fast: a done check skips the fail-fast
wait_check_first ==
    /\ wpc = "fail_fast"
    /\ IF has_fail_fast /\ ~chk.done
         THEN /\ ff_calls' = ff_calls + 1
              /\ wpc' = IF truthy(ff) THEN "raised" ELSE "check"
         ELSE /\ wpc' = "check"
              /\ UNCHANGED ff_calls
    /\ UNCHANGED <<has_fail_fast, ff, chk, check_calls, wout, iter>>
    /\ UNCHANGED <<svars, cvars>>

\* lines 25-28 with `if err is not None:` for `if err:`
wait_fail_fast_raises_on_empty ==
    /\ wpc = "fail_fast"
    /\ IF has_fail_fast
         THEN /\ ff_calls' = ff_calls + 1
              /\ wpc' = IF ff # "<None>" THEN "raised" ELSE "check"
         ELSE /\ wpc' = "check"
              /\ UNCHANGED ff_calls
    /\ UNCHANGED <<has_fail_fast, ff, chk, check_calls, wout, iter>>
    /\ UNCHANGED <<svars, cvars>>

\* lines 25-28
wait_fail_fast ==
    /\ wpc = "fail_fast"
    /\ IF has_fail_fast
         THEN /\ ff_calls' = ff_calls + 1
              /\ wpc' = IF truthy(ff) THEN "raised" ELSE "check"
         ELSE /\ wpc' = "check"
              /\ UNCHANGED ff_calls
    /\ UNCHANGED <<has_fail_fast, ff, chk, check_calls, wout, iter>>
    /\ UNCHANGED <<svars, cvars>>

\* lines 30-40 without the return of the `if done:` block
wait_check_without_return ==
    /\ wpc = "check"
    /\ check_calls' = check_calls + 1
    /\ wout' = IF chk.done
                 THEN (IF chk.msg # "" THEN "msg (OK)" ELSE "OK")
                 ELSE (IF chk.msg # "" THEN "msg" ELSE wout)
    /\ wpc' = "sleep"
    /\ UNCHANGED <<has_fail_fast, ff, chk, ff_calls, iter>>
    /\ UNCHANGED <<svars, cvars>>

\* lines 30-40
wait_check ==
    /\ wpc = "check"
    /\ check_calls' = check_calls + 1
    /\ wout' = IF chk.done
                 THEN (IF chk.msg # "" THEN "msg (OK)" ELSE "OK")
                 ELSE (IF chk.msg # "" THEN "msg" ELSE wout)
    /\ wpc' = IF chk.done THEN "returned" ELSE "sleep"
    /\ UNCHANGED <<has_fail_fast, ff, chk, ff_calls, iter>>
    /\ UNCHANGED <<svars, cvars>>

\* line 42, and the next iteration begins
wait_sleep ==
    /\ wpc = "sleep"
    /\ iter < MaxIter
    /\ wpc' = "fail_fast"
    /\ iter' = iter + 1
    /\ ff' \in FailFastResults
    /\ chk' \in CheckResults
    /\ ff_calls' = 0
    /\ check_calls' = 0
    /\ UNCHANGED <<has_fail_fast, wout>>
    /\ UNCHANGED <<svars, cvars>>

WaiterNext ==
    \/ wait_fail_fast
    \/ wait_check
    \/ wait_sleep

WaiterSpec == WaiterInit /\ [][WaiterNext]_vars

\* wait runs on the one thread of the process: fail_fast, check and
\* time.sleep return, and the statement after them is executed
WaiterLiveSpec == WaiterSpec /\ WF_vars(WaiterNext)

---------------------------------------------------------------------------
(* Vocabulary of the properties, stated on what the external system        *)
(* answered, not on what the code computed from it.                        *)

Range(f) == {f[i] : i \in DOMAIN f}

Count(cmd) == Cardinality({i \in DOMAIN issued : issued[i] = cmd})

Precedes(a, b) ==
    \A i, j \in DOMAIN issued : issued[i] = a /\ issued[j] = b => i < j

LastIssued == IF issued = <<>> THEN "" ELSE issued[Len(issued)]

\* the object carries a Ready condition with status True
IsReady(obj) == CondReadyTrue \in Range(obj.conditions)

QueryFailed(resp) == resp.rc # 0 \/ ~resp.json

TopologyTotal == IF topo.kind = "nodes" THEN topo.n ELSE 0

NodesMatch(resp) ==
    /\ ~QueryFailed(resp)
    /\ Len(resp.items) = TopologyTotal
    /\ \A n \in Range(resp.items) : IsReady(n)

PodsShowTerminal(resp) ==
    /\ ~QueryFailed(resp)
    /\ \E p \in Range(resp.items) :
         Range(p.containerStatuses) \cap TerminalReasons # {}

\* _ensure_cluster has looked at the external system
Reconciling == stage = 1 /\ ext # Idle

ReconcileEnded == Reconciling /\ pc \in {"ensure_return", "failed"}

Listed == cluster_name \in Range(ext.clusters.out)

SnapshotHealthy ==
    /\ ext.info_rc = 0
    /\ topo.kind # "missing"
    /\ NodesMatch(ext.nodes)

\* the snapshot answers False: it raises instead when both queries succeed
\* and the topology file cannot be opened
SnapshotUnhealthy ==
    \/ ext.info_rc # 0
    \/ QueryFailed(ext.nodes)
    \/ topo.kind # "missing" /\ ~NodesMatch(ext.nodes)

\* an iteration of the CoreDNS wait has looked at the external system
InCoreDnsIteration == stage = 4 /\ ext # Idle

StartErrors ==
    {"StartError: Failed to delete cluster",
     "StartError: Failed to create cluster",
     "StartError: infra/base directory not found.",
     "StartError: Failed to apply base manifests",
     "StartError: CoreDNS pod failure",
     "StartError: Ingress pod failure"}

---------------------------------------------------------------------------
(* cli.py: the start command, and its re-invocation                        *)

\* start_cluster(start_cfg): runs StartService.execute and lets what it
\* raises through
start_cluster_outcome ==
    IF pc = "done" THEN "returned" ELSE IF pc = "failed" THEN err ELSE "running"

\* the exit status forgotten after the error line
start_exits_zero_after_error ==
    /\ exit_code = -1
    /\ start_cluster_outcome # "running"
    /\ exit_code' = 0
    /\ shown' = IF start_cluster_outcome = "returned" THEN "none" ELSE "ERROR"
    /\ pc' = "exited"
    /\ UNCHANGED <<stage, ext, topo, expected, issued, err, ready, attempt, frozen>>
    /\ UNCHANGED wvars

\* start: `except StartError` prints the error and exits 1; any other
\* exception is not caught, the interpreter prints it and exits 1; a normal
\* return exits 0
start ==
    /\ exit_code = -1
    /\ start_cluster_outcome # "running"
    /\ IF start_cluster_outcome = "returned"
         THEN exit_code' = 0 /\ shown' = "none"
         ELSE IF start_cluster_outcome \in StartErrors
           THEN exit_code' = 1 /\ shown' = "ERROR"
           ELSE exit_code' = 1 /\ shown' = "Traceback"
    /\ pc' = "exited"
    /\ UNCHANGED <<stage, ext, topo, expected, issued, err, ready, attempt, frozen>>
    /\ UNCHANGED wvars

\* the command is invoked again once _ensure_cluster and the node gate have
\* completed, on an external system that has not changed since
reinvoke ==
    /\ pc = "nodes_return"
    /\ frozen = Idle
    /\ frozen' = [nodes |-> ext.nodes]
    /\ pc' = "ensure_cluster"
    /\ stage' = 1
    /\ ext' = Idle
    /\ issued' = <<>>
    /\ expected' = -1
    /\ attempt' = 1
    /\ UNCHANGED <<topo, err, ready, exit_code, shown>>
    /\ UNCHANGED wvars

CliNext ==
    \/ Next
    \/ start
    \/ reinvoke

CliSpec == Init /\ [][CliNext]_vars

---------------------------------------------------------------------------
(* Properties                                                              *)

\* C1: in an iteration of Waiter.wait whose fail-fast function yields a
\* non-empty diagnostic, the wait raises: it never evaluates the check and
\* never returns in that iteration, whatever the check would answer.
C1_FailFastPreemptsDone ==
    (has_fail_fast /\ ff \notin {"<None>", ""}) =>
        /\ wpc \in {"fail_fast", "raised"}
        /\ check_calls = 0

C1_Witness == wpc = "raised" /\ chk.done /\ ff = "pod failure" /\ iter = 2

\* C2: the deployment gate is "at least one working replica": an iteration
\* that fetched the deployment ends the wait exactly when it reports at
\* least one ready and at least one available replica, whatever the desired
\* replica count.
C2_AtLeastOneReplicaGate ==
    (InCoreDnsIteration /\ ~QueryFailed(ext.dep)) =>
        (pc = "coredns_return" <=>
            ext.dep.status.readyReplicas >= 1 /\ ext.dep.status.availableReplicas >= 1)

\* C3 as stated: a run of _ensure_cluster that found the target listed and
\* the snapshot unhealthy issued exactly one delete followed by exactly one
\* create.
C3_ExactlyOneDeleteThenCreate ==
    (ReconcileEnded /\ Listed /\ SnapshotUnhealthy) =>
        /\ Count("kind delete cluster") = 1
        /\ Count("kind create cluster") = 1
        /\ Precedes("kind delete cluster", "kind create cluster")

\* C3 amended: such a run issued exactly one delete; exactly one create
\* follows it when the delete exited 0, and when the delete failed the run
\* ended with the StartError of the delete step and issued no create.
C3_DeleteThenCreateUnlessDeleteFails ==
    (ReconcileEnded /\ Listed /\ SnapshotUnhealthy) =>
        /\ Count("kind delete cluster") = 1
        /\ Precedes("kind delete cluster", "kind create cluster")
        /\ ext.delete_rc = 0 => Count("kind create cluster") = 1
        /\ ext.delete_rc # 0 =>
             /\ Count("kind create cluster") = 0
             /\ pc = "failed"
             /\ err = "StartError: Failed to delete cluster"

C3_Witness ==
    /\ pc = "ensure_return" /\ Reconciling /\ Listed /\ SnapshotUnhealthy
    /\ ext.info_rc = 0 /\ ~QueryFailed(ext.nodes)
    /\ issued = <<"kind get clusters", "kubectl cluster-info", "kubectl get nodes",
                  "kind delete cluster", "kind create cluster">>

\* C4: when the target is listed and the snapshot is healthy (cluster-info
\* answers, the node count equals the expected total, every node is Ready),
\* _ensure_cluster issues neither a create nor a delete and returns.
C4_ReuseIssuesNoCreateNoDelete ==
    (Reconciling /\ Listed /\ SnapshotHealthy) =>
        /\ Count("kind create cluster") = 0
        /\ Count("kind delete cluster") = 0
        /\ pc \in {"snapshot_cluster_info", "snapshot_get_nodes", "ensure_return"}
        /\ err = "none"

C4_Witness ==
    /\ pc = "ensure_return" /\ Reconciling /\ Listed /\ SnapshotHealthy
    /\ Len(ext.nodes.items) = 2
    /\ ext.nodes.items[1].conditions = <<CondOtherTrue, CondReadyTrue>>

\* C5: when the target is absent from the listed clusters, _ensure_cluster
\* issues exactly one create, no delete and no snapshot query, and ends.
C5_AbsentCreatesOnce ==
    (Reconciling /\ ~Listed) =>
        \/ pc = "create_cluster" /\ issued = <<"kind get clusters">>
        \/ /\ pc = "ensure_return" /\ err = "none" /\ ext.create_rc = 0
           /\ issued = <<"kind get clusters", "kind create cluster">>
        \/ /\ pc = "failed" /\ err = "StartError: Failed to create cluster"
           /\ ext.create_rc # 0
           /\ issued = <<"kind get clusters", "kind create cluster">>

C5_Witness ==
    /\ pc = "ensure_return" /\ Reconciling /\ ext.clusters.out = <<"other">>
    /\ issued = <<"kind get clusters", "kind create cluster">>

\* C6: in an iteration of the CoreDNS wait in which a matching pod has a
\* container waiting with a terminal reason, the stage does not report the
\* deployment Available, whatever the deployment query answers.
C6_DetectorPreemptsAvailable ==
    (InCoreDnsIteration /\ PodsShowTerminal(ext.pods)) => pc # "coredns_return"

\* C7: in the polled stages a control-CLI query that fails, or whose output
\* does not parse as JSON, is never raised: the iteration ends not-done and
\* the loop sleeps before the next poll.
C7_TransientNeverRaised ==
    /\ (stage = 2 /\ ext # Idle /\ QueryFailed(ext.nodes)) => pc = "nodes_sleep"
    /\ (InCoreDnsIteration /\ QueryFailed(ext.dep)) => pc = "coredns_sleep"
    /\ (InCoreDnsIteration /\ LastIssued = "kubectl get pods k8s-app=kube-dns"
          /\ QueryFailed(ext.pods)) => pc = "coredns_sleep"
    /\ (stage = 5 /\ ext # Idle /\ QueryFailed(ext.pods)) => pc = "ingress_sleep"

\* the stage each external command belongs to
StageOfCommand(cmd) ==
    CASE cmd \in {"kind get clusters", "kubectl cluster-info", "kind delete cluster",
                  "kind create cluster"} -> {1}
      [] cmd = "kubectl get nodes" -> {1, 2}
      [] cmd = "kubectl apply -k" -> {3}
      [] cmd \in {"kubectl get deployment coredns",
                  "kubectl get pods k8s-app=kube-dns"} -> {4}
      [] cmd = "kubectl get pods component=controller" -> {5}
      [] cmd = "GET http://127.0.0.1:8080/" -> {6}
      [] OTHER -> {}

\* the gate of stage n, on what the external system answered
GateObserved(n) ==
    /\ ext # Idle
    /\ CASE n = 1 -> \/ ~Listed /\ ext.create_rc = 0
                     \/ Listed /\ SnapshotHealthy
                     \/ Listed /\ SnapshotUnhealthy /\ ext.delete_rc = 0 /\ ext.create_rc = 0
         [] n = 2 -> NodesMatch(ext.nodes)
         [] n = 3 -> ext.base_exists /\ ext.apply_rc = 0
         [] n = 4 -> /\ ~QueryFailed(ext.dep)
                     /\ ext.dep.status.readyReplicas >= 1
                     /\ ext.dep.status.availableReplicas >= 1
         [] n = 5 -> /\ ~QueryFailed(ext.pods)
                     /\ ext.pods.items # <<>>
                     /\ \A p \in Range(ext.pods.items) : IsReady(p)
         [] n = 6 -> ext.http = "200"
         [] OTHER -> FALSE

CommandsOfCurrentStage == \A i \in DOMAIN issued : stage \in StageOfCommand(issued[i])

\* C8: execute runs the six stages in order and without overlap: every
\* command issued belongs to the announced stage, the announced stage only
\* moves from n to n+1 and only when the gate of stage n was observed
\* satisfied in the very iteration that ended it, and readiness is reported
\* only after the gate of stage 6.
C8_StagesInOrder ==
    /\ [](CommandsOfCurrentStage /\ stage \in 1..6)
    /\ [][stage' # stage => (stage' = stage + 1 /\ GateObserved(stage))]_vars
    /\ [][ready' # ready => (ready' /\ stage = 6 /\ GateObserved(6))]_vars

C8_Witness ==
    /\ pc = "done" /\ ready /\ stage = 6
    /\ issued = <<"GET http://127.0.0.1:8080/">>

\* a fatal condition was met by the step just taken
FatalObserved ==
    \/ stage = 1 /\ LastIssued = "kind delete cluster" /\ ext.delete_rc # 0
    \/ stage = 1 /\ LastIssued = "kind create cluster" /\ ext.create_rc # 0
    \/ stage = 3 /\ ext # Idle /\ (~ext.base_exists \/ ext.apply_rc # 0)
    \/ /\ stage = 4 /\ LastIssued = "kubectl get pods k8s-app=kube-dns"
       /\ PodsShowTerminal(ext.pods)
    \/ stage = 5 /\ ext # Idle /\ PodsShowTerminal(ext.pods)

\* C9: a fatal error (cluster create or delete failure, manifest directory
\* missing, apply failure, terminal pod failure) aborts execute: it leaves
\* execute as a StartError, nothing happens after it (no command of a later
\* stage), and readiness is never reported.
C9_FatalErrorAborts ==
    /\ [](FatalObserved => (pc = "failed" /\ err \in StartErrors))
    /\ []((pc = "failed" <=> err # "none") /\ (pc = "failed" => ~ready))
    /\ [][pc # "failed"]_vars

C9_Witness ==
    /\ pc = "failed" /\ stage = 3 /\ ext.base_exists
    /\ err = "StartError: Failed to apply base manifests"
    /\ issued = <<"kubectl apply -k">>

\* C10: an iteration of the node-readiness wait ends the wait if and only if
\* the query answered, the observed node count equals the expected total and
\* every observed node is Ready; otherwise the loop sleeps.  From such a done
\* observation, making any single node not Ready yields one that is not done.
C10_NodesDoneIff ==
    (stage = 2 /\ ext # Idle) =>
        /\ pc = "nodes_return" <=> NodesMatch(ext.nodes)
        /\ pc \in {"nodes_return", "nodes_sleep"}
        /\ expected = TopologyTotal
        /\ pc = "nodes_return" =>
             \A i \in DOMAIN ext.nodes.items :
               \A c \in ConditionLists :
                 ~IsReady([conditions |-> c]) =>
                   ~nodes_done([ext.nodes.items EXCEPT ![i] = [conditions |-> c]], expected)

C10_Witness ==
    /\ pc = "nodes_return" /\ stage = 2 /\ Len(ext.nodes.items) = 2 /\ expected = 2
    /\ ext.nodes.items[2].conditions = <<CondOtherTrue, CondReadyTrue>>

C12_SmokeReturnsOnlyOn200 ==
    (stage = 6 /\ ext # Idle) =>
        /\ pc \in {"smoke_return", "smoke_sleep", "done"}
        /\ err = "none"
        /\ pc \in {"smoke_return", "done"} <=> ext.http = "200"
        /\ ext.http # "200" => (pc = "smoke_sleep" /\ ~ready)

C12_Witness == stage = 6 /\ pc = "smoke_sleep" /\ ext # Idle /\ ext.http = "204"

\* C13: in the CoreDNS wait and in the ingress wait the pod-failure detector
\* runs in every iteration, whatever the main query answers: an iteration in
\* which a matching pod has a container waiting with a terminal reason ends
\* with the terminal error, without sleeping, polling again or returning.
C13_DetectorRunsEveryIteration ==
    /\ (InCoreDnsIteration /\ PodsShowTerminal(ext.pods)) =>
          \/ pc = "coredns_pods"
          \/ pc = "failed" /\ err = "StartError: CoreDNS pod failure"
    /\ (stage = 5 /\ ext # Idle /\ PodsShowTerminal(ext.pods)) =>
          (pc = "failed" /\ err = "StartError: Ingress pod failure")

\* C14: reconciliation is idempotent: when _ensure_cluster and a satisfied
\* node-readiness gate have completed and the external system has not
\* changed since, a second run of _ensure_cluster takes the reuse path: it
\* issues no create and no delete and returns without error.
C14_RerunReuses ==
    (frozen # Idle /\ stage = 1) =>
        /\ Count("kind create cluster") = 0
        /\ Count("kind delete cluster") = 0
        /\ pc \in {"ensure_cluster", "snapshot_cluster_info", "snapshot_get_nodes",
                   "ensure_return"}
        /\ err = "none"

C14_Witness ==
    /\ frozen # Idle /\ stage = 1 /\ pc = "ensure_return"
    /\ issued = <<"kind get clusters", "kubectl cluster-info", "kubectl get nodes">>
    /\ Len(frozen.nodes.items) = 2
    /\ ext.nodes = frozen.nodes

\* C15: a failing create or delete command is fatal and is not retried: a
\* run of _ensure_cluster issues at most one delete and at most one create;
\* a failed delete ends the run with the StartError of the delete step and
\* without a create; a failed create ends it with the StartError of the
\* create step.
C15_ProvisioningFailureIsFatal ==
    Reconciling =>
        /\ Count("kind delete cluster") <= 1
        /\ Count("kind create cluster") <= 1
        /\ (Count("kind delete cluster") = 1 /\ ext.delete_rc # 0) =>
             /\ pc = "failed"
             /\ err = "StartError: Failed to delete cluster"
             /\ Count("kind create cluster") = 0
        /\ (Count("kind create cluster") = 1 /\ ext.create_rc # 0) =>
             /\ pc = "failed"
             /\ err = "StartError: Failed to create cluster"

C15_Witness ==
    /\ Reconciling /\ pc = "failed" /\ err = "StartError: Failed to create cluster"
    /\ Count("kind delete cluster") = 1 /\ ext.delete_rc = 0
    /\ LastIssued = "kind create cluster"

\* C16: a topology file that is missing, unreadable or without a "nodes"
\* list is a fatal error: the engine never holds an expected node count for
\* it, neither in the health snapshot (which must fail once both its queries
\* answered) nor in the node-readiness wait.
C16_TopologyErrorIsFatal ==
    topo.kind # "nodes" =>
        /\ expected = -1
        /\ pc \notin {"nodes_poll", "nodes_sleep", "nodes_return"}
        /\ (stage = 1 /\ LastIssued = "kubectl get nodes" /\ ~QueryFailed(ext.nodes)) =>
             pc = "failed"

\* C17: manifest application is one-shot: a run issues at most one apply and
\* never retries it; without the manifest directory the stage fails without
\* issuing the apply; an apply that exits non-zero fails the stage.
C17_ApplyIsOneShot ==
    /\ Count("kubectl apply -k") <= 1
    /\ stage # 3 => Count("kubectl apply -k") = 0
    /\ (stage = 3 /\ ext # Idle) =>
         /\ pc \in {"apply_return", "failed"}
         /\ ~ext.base_exists =>
              /\ issued = <<>>
              /\ pc = "failed"
              /\ err = "StartError: infra/base directory not found."
         /\ ext.base_exists => issued = <<"kubectl apply -k">>
         /\ (ext.base_exists /\ ext.apply_rc # 0) =>
              (pc = "failed" /\ err = "StartError: Failed to apply base manifests")
         /\ (ext.base_exists /\ ext.apply_rc = 0) =>
              (pc = "apply_return" /\ err = "none")

C17_Witness ==
    /\ stage = 3 /\ pc = "failed" /\ ext # Idle /\ ~ext.base_exists /\ ext.apply_rc = 0
    /\ issued = <<>>

SnapshotTaken ==
    Reconciling /\ Listed /\ pc \notin {"snapshot_cluster_info", "snapshot_get_nodes"}

\* C19: the health snapshot answers healthy if and only if cluster-info
\* exits 0, the node list exits 0 and parses, the observed node count equals
\* the expected total and every observed node is Ready; a cluster-info
\* failure or a node-list failure answers unhealthy (the run goes on to the
\* delete), it is never an error of the snapshot.
C19_SnapshotHealthyIff ==
    SnapshotTaken =>
        /\ (pc = "ensure_return" /\ Count("kind create cluster") = 0) <=> SnapshotHealthy
        /\ (ext.info_rc # 0 \/ QueryFailed(ext.nodes)) =>
             /\ pc = "delete_cluster" \/ Count("kind delete cluster") = 1
             /\ err \in {"none"} \cup StartErrors
        /\ ext.info_rc # 0 => Count("kubectl get nodes") = 0

C19_Witness ==
    /\ SnapshotTaken /\ pc = "delete_cluster" /\ ext.info_rc = 0
    /\ ~QueryFailed(ext.nodes) /\ Len(ext.nodes.items) = TopologyTotal
    /\ Len(ext.nodes.items) = 2
    /\ IsReady(ext.nodes.items[1]) /\ ~IsReady(ext.nodes.items[2])

\* C20: an iteration of Waiter.wait ends in one of three ways: it raises,
\* it returns, or it sleeps and the next iteration begins.  fail_fast is
\* evaluated at most once and before the check, the check at most once, the
\* sleep follows a not-done check only, and nothing but a raise or a return
\* ends the loop: a sleeping wait always goes on to the next iteration.
C20_ThreeOutcomes ==
    /\ wpc \in {"fail_fast", "check", "sleep", "returned", "raised"}
    /\ ff_calls <= 1 /\ check_calls <= 1
    /\ ~has_fail_fast => ff_calls = 0
    /\ (wpc # "fail_fast" /\ has_fail_fast) => ff_calls = 1
    /\ wpc \in {"sleep", "returned"} <=> check_calls = 1
    /\ check_calls = 1 => ff \in {"<None>", ""} \/ ~has_fail_fast
    /\ wpc = "raised" => (has_fail_fast /\ ff \notin {"<None>", ""})
    /\ wpc = "returned" => chk.done
    /\ wpc = "sleep" => ~chk.done
    /\ wpc \in {"fail_fast", "check"} => ENABLED WaiterNext
    /\ (wpc = "sleep" /\ iter < MaxIter) => ENABLED wait_sleep
    /\ wpc \in {"returned", "raised"} => ~ENABLED WaiterNext

C20_Witness ==
    /\ wpc = "sleep" /\ iter = 2 /\ has_fail_fast /\ ff = "" /\ chk.msg = "status"
    /\ ff_calls = 1 /\ check_calls = 1

\* C21: when fail_fast never yields a diagnostic and check eventually
\* answers done and keeps answering done, wait eventually returns; and wait
\* has returned only in an iteration whose own check answered done.
C21_EventuallyReturns ==
    /\ [](wpc = "returned" => (check_calls = 1 /\ chk.done))
    /\ ([](~has_fail_fast \/ ff \in {"<None>", ""}) /\ <>[](chk.done))
         => <>(wpc = "returned")

C21_Witness ==
    /\ wpc = "returned" /\ iter = 2 /\ chk.done /\ check_calls = 1
    /\ has_fail_fast /\ ff = "" /\ ff_calls = 1

\* C23: the exit code of the list command is ignored: when the list fails
\* (and prints nothing) the target is taken as absent and the run goes to the
\* create without a health snapshot and without a delete, as it does after a
\* successful list without the target; a delete is issued only when the
\* target was in the list output and the snapshot answered unhealthy.
C23_ListExitCodeIgnored ==
    Reconciling =>
        /\ ext.clusters.rc # 0 =>
             /\ ~Listed
             /\ err # "CommandFailed"
        /\ ~Listed =>
             /\ Count("kubectl cluster-info") = 0
             /\ Count("kubectl get nodes") = 0
             /\ Count("kind delete cluster") = 0
             /\ pc = "create_cluster" \/ LastIssued = "kind create cluster"
        /\ Count("kind delete cluster") > 0 => (Listed /\ SnapshotUnhealthy)

C23_Witness ==
    /\ Reconciling /\ ext.clusters.rc # 0 /\ pc = "ensure_return"
    /\ issued = <<"kind get clusters", "kind create cluster">>

\* how the poll iteration the run is in has ended, if it has
Decision ==
    IF pc = "failed" THEN err
    ELSE IF pc \in {"nodes_return", "coredns_return", "ingress_return", "smoke_return"}
      THEN "done"
    ELSE IF pc \in {"nodes_sleep", "coredns_sleep", "ingress_sleep", "smoke_sleep"}
      THEN "not-done"
    ELSE "undecided"

\* the decision as a function of the iteration's own observation (and of the
\* topology total, which is configuration), stage by stage
NodesDecision(e) == IF NodesMatch(e.nodes) THEN "done" ELSE "not-done"

CoreDnsDecision(e) ==
    IF QueryFailed(e.dep) THEN "not-done"
    ELSE IF e.dep.status.replicas > 0
            /\ e.dep.status.availableReplicas = e.dep.status.replicas THEN "done"
    ELSE IF e.pods.rc # 0 THEN "not-done"
    ELSE IF ~e.pods.json THEN "JSONDecodeError"
    ELSE IF PodsShowTerminal(e.pods) THEN "StartError: CoreDNS pod failure"
    ELSE "not-done"

IngressDecision(e) ==
    IF e.pods.rc # 0 THEN "not-done"
    ELSE IF ~e.pods.json THEN "JSONDecodeError"
    ELSE IF PodsShowTerminal(e.pods) THEN "StartError: Ingress pod failure"
    ELSE IF e.pods.items # <<>> /\ \A q \in Range(e.pods.items) : IsReady(q) THEN "done"
    ELSE "not-done"

SmokeDecision(e) == IF e.http = "200" THEN "done" ELSE "not-done"

\* C22: the decision of a poll iteration (done, not done, or the error that
\* ends the run) is a function of what the external system answered in that
\* iteration: it is the same in the first iteration and in every later one,
\* whatever the iterations before observed.
C22_DecisionDependsOnCurrentPollOnly ==
    (ext # Idle /\ Decision # "undecided") =>
        /\ attempt \in 1..MaxIter
        /\ stage = 2 => Decision = NodesDecision(ext)
        /\ stage = 4 => Decision = CoreDnsDecision(ext)
        /\ stage = 5 => Decision = IngressDecision(ext)
        /\ stage = 6 => Decision = SmokeDecision(ext)

C22_Witness ==
    /\ stage = 6 /\ attempt = 3 /\ ext # Idle /\ ext.http = "HTTPError 503"
    /\ pc = "smoke_sleep"

===========================================================================
